---- MODULE Spec2Model ----
(***************************************************************************)
(* Model of the HL7 v2 auto-correction core: the code table registry       *)
(* (hl7_code_tables.py), the correction rule engine (hl7_corrector.py)     *)
(* and the iterative validate/correct loop (dashboard_app.py,              *)
(* retry_auto_correct).                                                    *)
(*                                                                         *)
(* A message is modelled as the text the regular expressions of the        *)
(* engine look at: a head (the tokens before the root element: byte-order  *)
(* marks, white space, the XML declaration), the name of the root element  *)
(* and a body, the sequence of field elements, each with its component     *)
(* elements.                                                               *)
(***************************************************************************)
EXTENDS Integers, Sequences, FiniteSets, TLC

VARIABLES
    json_source,      \* content of hl7_code_tables.json as load_tables finds it
    code_tables,      \* HL7CodeTableManager.code_tables
    loaded,           \* HL7CodeTableManager._loaded
    hash_first,       \* per table: the element list(set) enumerates first in this process
    max_iterations,   \* int(os.getenv('MAX_AUTO_CORRECT_ITERATIONS', '10'))
    pc,               \* position of retry_auto_correct
    original_content, \* the uploaded message as read from the database or temp file
    current_content,  \* retry_auto_correct: current_content
    final_file,       \* content of the file at final_filepath (what the validator reads)
    iteration,        \* retry_auto_correct: iteration
    total_corrections,\* retry_auto_correct: total_corrections
    all_corrections,  \* retry_auto_correct: all_corrections
    detailed_errors,  \* retry_auto_correct: detailed_errors
    status,           \* retry_auto_correct: status
    response,         \* the JSON response of the request
    exit_via,         \* how the while loop was left
    validations,      \* history: one entry per subprocess.run of the validator
    passes,           \* history: one entry per prepare_message call
    calls,            \* per thread: the registry call it is executing
    answer,           \* the last value a registry query returned
    os_environ,       \* GAZELLE_API_KEY in os.environ of the server process
    envfs,            \* the files .env, .env.temp and .env.backup of the working directory
    sess,             \* per request of retry_auto_correct: its position in the .env protocol
    poll,             \* check_validation_status: its loop and its return value
    processing_results, \* dashboard_app.processing_results: the temp-file records
    last_request      \* history: the last request to a temp-file record and what it found

vars == <<json_source, code_tables, loaded, hash_first, max_iterations, pc,
          original_content, current_content, final_file, iteration,
          total_corrections, all_corrections, detailed_errors, status,
          response, exit_via, validations, passes, calls, answer,
          os_environ, envfs, sess, poll, processing_results, last_request>>

\* the state of the threads that call the registry directly
regvars == <<calls, answer>>

\* the state of the validator invocation: the .env hand-over of concurrent
\* requests and the status polling of the validator script
auxvars == <<os_environ, envfs, sess, poll, processing_results, last_request>>

\* the temp-file records and the last request to one of them
recvars == <<processing_results, last_request>>

(***************************************************************************)
(* Bounds of the model.                                                    *)
(***************************************************************************)
MaxCeiling == 2   \* largest configured iteration ceiling
MaxHeadLen == 2   \* longest head (tokens before the root element) of an input
MaxDiags == 1     \* longest diagnostic list of one validator response

NoVal == "<none>"

Min(S) == CHOOSE x \in S : \A y \in S : x <= y

RECURSIVE SeqsUpTo(_, _)
SeqsUpTo(S, n) ==
    IF n = 0 THEN {<<>>}
    ELSE LET shorter == SeqsUpTo(S, n - 1)
         IN  shorter \cup {Append(s, x) : s \in {t \in shorter : Len(t) = n - 1}, x \in S}

(***************************************************************************)
(* Code table registry (hl7_code_tables.py).                               *)
(***************************************************************************)

\* The JSON source: missing file, undecodable JSON, or a sequence of
\* (table name, table data) items in file order.  An item is "ok" (a dict
\* with a 'codes' list), "skip" (not a dict with 'codes') or "raise"
\* ('codes' is not iterable: set(...) raises inside the try block).
StoreTableReplacesAll(tables, it) ==
    [t \in {it.name} |-> it.codes]

\* line 51: self.code_tables[table_name] = codes
StoreTable(tables, it) ==
    [t \in DOMAIN tables \cup {it.name} |->
        IF t = it.name THEN it.codes ELSE tables[t]]

RECURSIVE LoadItems(_, _)
LoadItems(items, tables) ==
    IF items = <<>> THEN tables
    ELSE LET it == Head(items)
         IN  IF it.kind = "raise" THEN tables
             ELSE IF it.kind = "skip" THEN LoadItems(Tail(items), tables)
             ELSE LoadItems(Tail(items), StoreTable(tables, it))

EmptyTables == [t \in {} |-> {}]

\* load_tables: the tables after the call, given the tables before
LoadTables(src, isLoaded, tables) ==
    IF isLoaded THEN tables
    ELSE IF src.file # "ok" THEN tables
    ELSE LoadItems(src.items, tables)

IsValidCodeUnknownAccepts(tables, t, code) ==
    IF t \notin DOMAIN tables THEN TRUE ELSE code \in tables[t]

\* is_valid_code, after load_tables
IsValidCode(tables, t, code) ==
    IF t \notin DOMAIN tables THEN FALSE ELSE code \in tables[t]

FindSimilarCodeNoPreference(tables, first, t, invalid_code) ==
    IF t \notin DOMAIN tables THEN NoVal
    ELSE IF tables[t] = {} THEN NoVal
    ELSE first[t]

FindSimilarCodeUnchecked(tables, first, t, invalid_code) ==
    IF t \notin DOMAIN tables THEN NoVal
    ELSE IF tables[t] = {} THEN NoVal
    ELSE IF t = "HL70070" THEN "OTH"
    ELSE IF t = "HL70301" THEN "L"
    ELSE first[t]

\* find_similar_code; first[t] is valid_codes[0], the element the process
\* happens to enumerate first in list(set)
FindSimilarCode(tables, first, t, invalid_code) ==
    IF t \notin DOMAIN tables THEN NoVal
    ELSE IF tables[t] = {} THEN NoVal
    ELSE IF t = "HL70070" /\ "SER" \in tables[t] THEN "SER"
    ELSE IF t = "HL70070" /\ "BLD" \in tables[t] THEN "BLD"
    ELSE IF t = "HL70070" /\ "OTH" \in tables[t] THEN "OTH"
    ELSE IF t = "HL70301" /\ "L" \in tables[t] THEN "L"
    ELSE first[t]

(***************************************************************************)
(* Message text.                                                           *)
(***************************************************************************)
HeadTokens == {"BOM", "WS", "DECL"}

IsBlank(v) == v \in {"", " "}

\* '>v<' in content: some element has exactly the text v
HasLiteral(body, v) ==
    \E i \in 1..Len(body) :
        \/ body[i].comps = <<>> /\ body[i].text = v
        \/ \E j \in 1..Len(body[i].comps) : body[i].comps[j].val = v

\* content.replace('>v<', '>r<')
ReplaceLiteral(body, v, r) ==
    [i \in 1..Len(body) |->
        [name  |-> body[i].name,
         text  |-> IF body[i].comps = <<>> /\ body[i].text = v THEN r ELSE body[i].text,
         comps |-> [j \in 1..Len(body[i].comps) |->
                      IF body[i].comps[j].val = v
                      THEN [tag |-> body[i].comps[j].tag, val |-> r]
                      ELSE body[i].comps[j]]]]

\* '<tag>v</tag>' in content
HasTagVal(body, tag, v) ==
    \E i \in 1..Len(body) : \E j \in 1..Len(body[i].comps) :
        body[i].comps[j].tag = tag /\ body[i].comps[j].val = v

\* content.replace('<tag>v</tag>', '<tag>r</tag>')
ReplaceTagVal(body, tag, v, r) ==
    [i \in 1..Len(body) |->
        [body[i] EXCEPT !.comps =
            [j \in 1..Len(body[i].comps) |->
                IF body[i].comps[j].tag = tag /\ body[i].comps[j].val = v
                THEN [tag |-> tag, val |-> r]
                ELSE body[i].comps[j]]]]

(***************************************************************************)
(* Diagnostics and correction records.                                     *)
(***************************************************************************)

\* A location address such as 'hl7shortpath:SCH[1]-6[1].3[1]': colon is the
\* ':' before the segment name, segrep and fldrep the bracketed repetition
\* indices (0: omitted), comp the component number ("" when omitted).
Loc(colon, seg, segrep, fld, fldrep, comp) ==
    [colon |-> colon, seg |-> seg, segrep |-> segrep,
     fld |-> fld, fldrep |-> fldrep, comp |-> comp]

NoLoc == Loc(FALSE, "", 0, "", 0, "")

\* What the free-text description contains: the words the dispatcher looks
\* for and the literals its regular expressions extract.
Desc(missing, required, notmember, value, tabletext, codesys) ==
    [missing |-> missing, required |-> required, notmember |-> notmember,
     value |-> value, tabletext |-> tabletext, codesys |-> codesys]

NoDesc == Desc(FALSE, FALSE, FALSE, NoVal, NoVal, NoVal)

Diag(type, severity, location, description) ==
    [type |-> type, severity |-> severity,
     location |-> location, description |-> description]

Rec(type, location, old, new, table, reason) ==
    [type |-> type, location |-> location, old_value |-> old,
     new_value |-> new, table |-> table, reason |-> reason]

\* re.search(r':([A-Z]{3})\[1\]-(\d+)', location)
MatchFieldLocation(l) == l.colon /\ l.seg # "" /\ l.segrep = 1 /\ l.fld # ""

\* re.search(r':([A-Z]{3})\[1\]-(\d+)\[1\]\.(\d+)', location)
MatchComponentLocation(l) ==
    MatchFieldLocation(l) /\ l.fldrep = 1 /\ l.comp # ""

\* re.search(r'\[(HL7\d+)(?:_[A-Z]+)?\]', description): group 1, or 'Unknown'
TableOfText(tabletext) ==
    CASE tabletext = "HL70301"    -> "HL70301"
      [] tabletext = "HL70301_HL" -> "HL70301"
      [] tabletext = "HL70070"    -> "HL70070"
      [] tabletext = "HL70999"    -> "HL70999"
      [] OTHER                    -> "Unknown"

\* 'Code' in error_type or 'code' in error_type.lower()
TypeNamesCode(type) == type \in {"Code", "Code Not Found"}

(***************************************************************************)
(* Correction rule engine (hl7_corrector.py).  The engine state st is the  *)
(* decoded content (head, root, body), the records of the pass             *)
(* (corrections_made) and whether the pass has queried the registry.       *)
(***************************************************************************)

\* _remove_bom
RemoveBom(st) ==
    IF st.head # <<>> /\ Head(st.head) = "BOM"
    THEN [st EXCEPT !.head = Tail(st.head),
                    !.recs = Append(st.recs,
                        Rec("BOM_REMOVAL", NoLoc, NoVal, NoVal, NoVal, NoDesc))]
    ELSE st

\* content.strip().startswith('<?xml'): strip() removes white space, not U+FEFF
RECURSIVE StartsWithDeclaration(_)
StartsWithDeclaration(head) ==
    IF head = <<>> THEN FALSE
    ELSE IF Head(head) = "WS" THEN StartsWithDeclaration(Tail(head))
    ELSE Head(head) = "DECL"

EnsureXmlDeclarationAlways(st) ==
    [st EXCEPT !.head = <<"DECL">> \o st.head,
               !.recs = Append(st.recs,
                   Rec("XML_DECLARATION", NoLoc, NoVal, NoVal, NoVal, NoDesc))]

\* _ensure_xml_declaration
EnsureXmlDeclaration(st) ==
    IF ~StartsWithDeclaration(st.head)
    THEN [st EXCEPT !.head = <<"DECL">> \o st.head,
                    !.recs = Append(st.recs,
                        Rec("XML_DECLARATION", NoLoc, NoVal, NoVal, NoVal, NoDesc))]
    ELSE st

\* the list "corrections" of _apply_code_corrections; tag "" is the bare
\* pattern '>XXX<'
KnownCorrections ==
    << [invalid_value |-> "MCN.HLPracticeID", tag |-> "HD.3", table |-> "HL70301",
        location |-> Loc(FALSE, "MSH", 0, "6", 0, "3")],
       [invalid_value |-> "HIPEHOS", tag |-> "EI.4", table |-> "HL70301",
        location |-> Loc(FALSE, "SCH", 0, "2", 0, "4")],
       [invalid_value |-> "XXX", tag |-> "", table |-> "HL70070",
        location |-> Loc(FALSE, "OBR", 0, "15", 0, "1")] >>

\* one round of the for loop of _apply_code_corrections
ApplyKnownCorrection(st, c, T, first) ==
    LET present == IF c.tag = "" THEN HasLiteral(st.body, c.invalid_value)
                   ELSE HasTagVal(st.body, c.tag, c.invalid_value)
        replacement == FindSimilarCode(T, first, c.table, c.invalid_value)
    IN  IF ~present THEN st
        ELSE IF replacement = NoVal THEN [st EXCEPT !.touched = TRUE]
        ELSE [st EXCEPT
                !.touched = TRUE,
                !.body = IF c.tag = ""
                         THEN ReplaceLiteral(st.body, c.invalid_value, replacement)
                         ELSE ReplaceTagVal(st.body, c.tag, c.invalid_value, replacement),
                !.recs = Append(st.recs,
                    Rec("CODE_FIX", c.location, c.invalid_value, replacement,
                        c.table, NoDesc))]

\* _apply_code_corrections
ApplyCodeCorrections(st, T, first) ==
    ApplyKnownCorrection(
        ApplyKnownCorrection(
            ApplyKnownCorrection(st, KnownCorrections[1], T, first),
            KnownCorrections[2], T, first),
        KnownCorrections[3], T, first)

\* The matches of r'(<SCH\.6>.*?<CE\.3>)(\s*)(</CE\.3>)' with re.DOTALL, in
\* order: each match starts at the first <SCH.6> at or after field index
\* "from" and ends at the first blank <CE.3> that follows it, in whatever
\* field that CE.3 lies; the search resumes after the end of the match.
RECURSIVE Sch6Ce3Matches(_, _)
Sch6Ce3Matches(body, from) ==
    LET starts == {i \in from..Len(body) : body[i].name = "SCH.6"}
    IN  IF starts = {} THEN <<>>
        ELSE LET s == Min(starts)
                 rows == {i \in s..Len(body) :
                            \E j \in 1..Len(body[i].comps) :
                                body[i].comps[j].tag = "CE.3" /\ IsBlank(body[i].comps[j].val)}
             IN  IF rows = {} THEN <<>>
                 ELSE LET i == Min(rows)
                          j == Min({k \in 1..Len(body[i].comps) :
                                      body[i].comps[k].tag = "CE.3"
                                      /\ IsBlank(body[i].comps[k].val)})
                      IN  <<(<<i, j>>)>> \o Sch6Ce3Matches(body, i + 1)

\* re.sub of the pattern above: every match gets 'HL70276' and one record
RECURSIVE FillSch6Ce3(_, _, _)
FillSch6Ce3(st, matches, rec) ==
    IF matches = <<>> THEN st
    ELSE LET m == Head(matches)
         IN  FillSch6Ce3(
                [st EXCEPT !.body[m[1]].comps[m[2]].val = "HL70276",
                           !.recs = Append(st.recs, rec)],
                Tail(matches), rec)

\* _fix_empty_required_fields
FixEmptyRequiredFields(st) ==
    IF st.root \in {"SIU_S12", "SIU_S13"}
    THEN FillSch6Ce3(st, Sch6Ce3Matches(st.body, 1),
            Rec("FIELD_INSERTION", Loc(FALSE, "SCH", 0, "6", 0, "3"),
                NoVal, "HL70276", NoVal, NoDesc))
    ELSE st

\* the matches of rf'(<SCH\.20>)(\s*)(</\w+\.\d+>)': the empty SCH.20 elements
EmptySch20(body) ==
    {i \in 1..Len(body) :
        body[i].name = "SCH.20" /\ body[i].comps = <<>> /\ IsBlank(body[i].text)}

RECURSIVE FillSch20(_, _, _)
FillSch20(st, todo, rec) ==
    IF todo = {} THEN st
    ELSE LET i == Min(todo)
         IN  FillSch20(
                [st EXCEPT !.body[i].text = "SYSTEM^AUTO^CORRECTOR",
                           !.recs = Append(st.recs, rec)],
                todo \ {i}, rec)

FixMissingFieldAnyField(st, location, description) ==
    IF ~MatchFieldLocation(location) THEN st
    ELSE FillSch20(st,
            {i \in 1..Len(st.body) :
                /\ st.body[i].name = location.seg \o "." \o location.fld
                /\ st.body[i].comps = <<>>
                /\ IsBlank(st.body[i].text)},
            Rec("GAZELLE_FIX", location, NoVal, "SYSTEM^AUTO^CORRECTOR",
                NoVal, description))

\* _fix_missing_field
FixMissingField(st, location, description) ==
    IF ~MatchFieldLocation(location) THEN st
    ELSE IF location.seg = "SCH" /\ location.fld = "20"
    THEN FillSch20(st, EmptySch20(st.body),
            Rec("GAZELLE_FIX", location, NoVal, "SYSTEM^AUTO^CORRECTOR",
                NoVal, description))
    ELSE st

\* _fix_missing_component
FixMissingComponent(st, location, description) ==
    IF ~MatchComponentLocation(location) THEN st
    ELSE IF location.seg = "SCH" /\ location.fld = "6" /\ location.comp = "3"
    THEN FillSch6Ce3(st, Sch6Ce3Matches(st.body, 1),
            Rec("GAZELLE_FIX", location, NoVal, "HL70276", NoVal, description))
    ELSE st

\* _fix_invalid_code, strategy 2: the ce_patterns list, first pattern found
FixCodeStrategy2(body, invalid_value, correct_value) ==
    IF HasTagVal(body, "CE.1", invalid_value)
    THEN [replaced |-> TRUE,
          body |-> ReplaceTagVal(body, "CE.1", invalid_value, correct_value)]
    ELSE IF HasLiteral(body, invalid_value)
    THEN [replaced |-> TRUE,
          body |-> ReplaceLiteral(body, invalid_value, correct_value)]
    ELSE [replaced |-> FALSE, body |-> body]

ReplaceInvalidCodeWritesNone(st, location, description, full_table, T, first) ==
    LET invalid_value == description.value
        found == FindSimilarCode(T, first, full_table, invalid_value)
        correct_value == IF found = NoVal THEN "None" ELSE found
    IN  IF HasLiteral(st.body, invalid_value)
        THEN [st EXCEPT !.body = ReplaceLiteral(st.body, invalid_value, correct_value),
                        !.recs = Append(st.recs,
                            Rec("GAZELLE_FIX", location, invalid_value,
                                correct_value, full_table, description))]
        ELSE st

\* _fix_invalid_code, the branch "if not is_code_valid"
ReplaceInvalidCode(st, location, description, full_table, T, first) ==
    LET invalid_value == description.value
        correct_value == FindSimilarCode(T, first, full_table, invalid_value)
        s1 == HasLiteral(st.body, invalid_value)
        s2 == FixCodeStrategy2(st.body, invalid_value, correct_value)
        replaced == s1 \/ s2.replaced
        newbody == IF s1 THEN ReplaceLiteral(st.body, invalid_value, correct_value)
                   ELSE s2.body
    IN  IF correct_value = NoVal THEN st
        ELSE IF replaced
        THEN [st EXCEPT !.body = newbody,
                        !.recs = Append(st.recs,
                            Rec("GAZELLE_FIX", location, invalid_value,
                                correct_value, full_table, description))]
        ELSE st

FixInvalidCodeBlind(st0, location, description, T, first) ==
    IF description.value = NoVal THEN st0
    ELSE ReplaceInvalidCode([st0 EXCEPT !.touched = TRUE], location, description,
                            TableOfText(description.tabletext), T, first)

\* _fix_invalid_code
FixInvalidCode(st0, location, description, T, first) ==
    IF description.value = NoVal THEN st0
    ELSE
    LET st == [st0 EXCEPT !.touched = TRUE]
        invalid_value == description.value
        invalid_codesystem == description.codesys
        full_table == TableOfText(description.tabletext)
        is_code_valid == IsValidCode(T, full_table, invalid_value)
    IN  IF is_code_valid /\ invalid_codesystem # NoVal
           /\ invalid_codesystem # full_table
           /\ HasTagVal(st.body, "CE.3", invalid_codesystem)
        THEN [st EXCEPT
                !.body = ReplaceTagVal(st.body, "CE.3", invalid_codesystem, ""),
                !.recs = Append(st.recs,
                    Rec("GAZELLE_FIX", location, invalid_codesystem, "(empty)",
                        full_table, description))]
        ELSE IF ~is_code_valid
        THEN ReplaceInvalidCode(st, location, description, full_table, T, first)
        ELSE st

ApplyOneErrorAllSeverities(st, error, T, first) ==
    IF error.type = "Cardinality" /\ error.description.missing
    THEN FixMissingField(st, error.location, error.description)
    ELSE IF TypeNamesCode(error.type) /\ error.description.notmember
    THEN FixInvalidCode(st, error.location, error.description, T, first)
    ELSE IF error.description.required /\ error.description.missing
    THEN FixMissingComponent(st, error.location, error.description)
    ELSE st

\* the body of the for loop of _apply_gazelle_error_fixes
ApplyOneError(st, error, T, first) ==
    IF error.severity \in {"WARNING", "warning"} THEN st
    ELSE IF error.type = "Cardinality" /\ error.description.missing
    THEN FixMissingField(st, error.location, error.description)
    ELSE IF TypeNamesCode(error.type) /\ error.description.notmember
    THEN FixInvalidCode(st, error.location, error.description, T, first)
    ELSE IF error.description.required /\ error.description.missing
    THEN FixMissingComponent(st, error.location, error.description)
    ELSE st

\* _apply_gazelle_error_fixes
RECURSIVE ApplyGazelleErrorFixes(_, _, _, _)
ApplyGazelleErrorFixes(st, gazelle_errors, T, first) ==
    IF gazelle_errors = <<>> THEN st
    ELSE ApplyGazelleErrorFixes(
            ApplyOneError(st, Head(gazelle_errors), T, first),
            Tail(gazelle_errors), T, first)

\* xml_content.decode('utf-8-sig'), or on failure decode('utf-8', errors='ignore'):
\* utf-8-sig drops one leading byte-order mark; the fallback keeps it and drops
\* the undecodable bytes
Decode(content) ==
    IF content.bad THEN [content EXCEPT !.bad = FALSE]
    ELSE IF content.head # <<>> /\ Head(content.head) = "BOM"
    THEN [content EXCEPT !.head = Tail(content.head)]
    ELSE content

\* prepare_message: the returned bytes, the returned corrections_made, and
\* whether the pass called into the code table registry.  The steps run in
\* the order of the code; each intermediate content is bound as a value
\* (st1 .. st5) before the next step reads it.
PrepareMessage(xml_content, gazelle_errors, T, first) ==
    LET Start(decoded) ==
            [head |-> decoded.head, root |-> decoded.root, body |-> decoded.body,
             recs |-> <<>>, touched |-> FALSE]
        Result(st) ==
            [content |-> [head |-> st.head, root |-> st.root, body |-> st.body,
                          bad |-> FALSE],
             corrections |-> st.recs,
             touched |-> st.touched]
        results ==
            { Result(st5) :
              st5 \in { IF gazelle_errors # <<>>
                        THEN ApplyGazelleErrorFixes(st4, gazelle_errors, T, first)
                        ELSE st4 :
              st4 \in { FixEmptyRequiredFields(st3) :
              st3 \in { ApplyCodeCorrections(st2, T, first) :
              st2 \in { EnsureXmlDeclaration(st1) :
              st1 \in { RemoveBom(st0) :
              st0 \in { Start(Decode(xml_content)) } } } } } } }
    IN  CHOOSE r \in results : TRUE

(***************************************************************************)
(* Inputs: code table sources, uploaded messages, validator responses.     *)
(***************************************************************************)
Item(name, kind, codes) == [name |-> name, kind |-> kind, codes |-> codes]

SampleSources ==
    { [file |-> "missing", items |-> <<>>],
      [file |-> "ok", items |-> << Item("HL70301", "ok", {"L", "ISO"}),
                                   Item("HL70070", "ok", {"OTH", "SER"}) >>],
      [file |-> "ok", items |-> << Item("HL70301", "ok", {"ISO", "DNS"}),
                                   Item("HL70070", "ok", {"OTH"}) >>] }

\* the orders in which this process may enumerate the sets of the tables
FirstChoices(T) ==
    {f \in [DOMAIN T -> UNION {T[t] : t \in DOMAIN T} \cup {NoVal}] :
        \A t \in DOMAIN T : IF T[t] = {} THEN f[t] = NoVal ELSE f[t] \in T[t]}

F(name, text, comps) == [name |-> name, text |-> text, comps |-> comps]
C(tag, val) == [tag |-> tag, val |-> val]

SampleDocs ==
    { [root |-> "SIU_S12",
       body |-> << F("SCH.2", "", << C("EI.1", "A1"), C("EI.4", "HIPEHOS") >>),
                   F("SCH.6", "", << C("CE.1", "ROUTINE"), C("CE.3", "") >>) >>],
      [root |-> "REF_I12",
       body |-> << F("MSH.4", "", << C("HD.3", "CLIP") >>),
                   F("OBR.15", "", << C("CE.1", "BAD"), C("CE.3", "L") >>),
                   F("SCH.20", "", <<>>) >>],
      [root |-> "ORU_R01",
       body |-> << F("PID.3", "", << C("CX.1", "123") >>) >>] }

InputMessages ==
    {[head |-> h, root |-> d.root, body |-> d.body, bad |-> b] :
        h \in SeqsUpTo(HeadTokens, MaxHeadLen), d \in SampleDocs, b \in BOOLEAN}

NoFile == [head |-> <<>>, root |-> "<no file>", body |-> <<>>, bad |-> FALSE]

DiagPool ==
    { Diag("Code", "ERROR", Loc(TRUE, "MSH", 1, "4", 1, "3"),
           Desc(FALSE, FALSE, TRUE, "CLIP", "HL70301", NoVal)),
      Diag("Code", "ERROR", Loc(TRUE, "OBR", 1, "15", 1, "1"),
           Desc(FALSE, FALSE, TRUE, "BAD", "HL70070", NoVal)),
      Diag("Cardinality", "ERROR", Loc(TRUE, "SCH", 1, "20", 1, ""),
           Desc(TRUE, TRUE, FALSE, NoVal, NoVal, NoVal)),
      Diag("Cardinality", "ERROR", Loc(TRUE, "PID", 1, "5", 1, ""),
           Desc(TRUE, TRUE, FALSE, NoVal, NoVal, NoVal)) }

DiagLists == SeqsUpTo(DiagPool, MaxDiags)

\* What one run of the validator script gives retry_auto_correct:
\*   "timeout": subprocess.run raises TimeoutExpired;
\*   "infra":   the script could not submit or poll (it prints neither a
\*              'Status:' line nor a diagnostics line and exits 1);
\*   "report":  stdout with a 'Status:' line and a GAZELLE_ERRORS_JSON line
\*              (json_ok FALSE: the line is absent or does not parse).
Responses ==
    { [kind |-> "timeout", status |-> NoVal, json_ok |-> FALSE, errors |-> <<>>],
      [kind |-> "infra", status |-> NoVal, json_ok |-> FALSE, errors |-> <<>>] }
    \cup
    { [kind |-> "report", status |-> s, json_ok |-> TRUE, errors |-> l] :
        s \in {"PASSED", "FAILED", "UNDEFINED", "OTHER"}, l \in DiagLists }
    \cup
    { [kind |-> "report", status |-> s, json_ok |-> FALSE, errors |-> <<>>] :
        s \in {"PASSED", "FAILED", "UNDEFINED", "OTHER"} }

NoResponse == [http |-> 0, success |-> FALSE, status |-> NoVal,
               corrections_applied |-> 0, iterations |-> 0, remaining_errors |-> 0]

\* the threads of the process that call the registry directly
Threads == {"t1", "t2"}

\* a thread outside any registry call, with the number of calls it may still make
Idle(left) == [pc |-> "idle", op |-> NoVal, table |-> NoVal, code |-> NoVal,
               items |-> <<>>, exc |-> NoVal, left |-> left]

NoAnswer == [thread |-> NoVal, op |-> NoVal, table |-> NoVal, code |-> NoVal,
             seen |-> EmptyTables, result |-> NoVal]

(***************************************************************************)
(* The validator invocation: the requests of retry_auto_correct that hand  *)
(* their API key to validate_with_verification.py through the file .env,   *)
(* and the status polling of that script.                                  *)
(***************************************************************************)
Absent == "<absent>"

\* two requests of retry_auto_correct, each in its own Flask session
Sessions == {"s1", "s2"}

\* session['api_key'] of the request
ApiKey(s) == IF s = "s1" THEN "key1" ELSE "key2"

\* a request that has not reached the loop: backup_env is the local
\* variable of line 1131, used the keys its validator runs authenticated with
NewSession == [pc |-> "write_temp", backup_env |-> FALSE, runs |-> 0,
               used |-> <<>>, error |-> NoVal]

\* check_validation_status has not been called
NotPolling == [pc |-> "idle", max_wait |-> 0, attempt |-> 0, requests |-> 0,
               replies |-> <<>>, result |-> NoVal, error |-> NoVal]

\* the file ids of the uploads (uuid4 values)
FileIds == {"f1", "f2"}

\* no entry of processing_results for a file id
NoRecord == [session_id |-> NoVal, status |-> NoVal, detailed_errors |-> FALSE,
             corrected_path |-> FALSE, corrected_file |-> FALSE]

NoRequest == [handler |-> NoVal, file_id |-> NoVal, session_id |-> NoVal,
              found |-> NoRecord, http |-> 0]

\* the values of the validator invocation while only the loop, the registry
\* or the engine is looked at
AuxIdle ==
    /\ os_environ = Absent
    /\ envfs = [env |-> Absent, temp |-> Absent, backup |-> Absent]
    /\ sess = [s \in Sessions |-> NewSession]
    /\ poll = NotPolling
    /\ processing_results = [f \in FileIds |-> NoRecord]
    /\ last_request = NoRequest

(***************************************************************************)
(* retry_auto_correct (dashboard_app.py).                                  *)
(***************************************************************************)
Init ==
    /\ json_source \in SampleSources
    /\ code_tables = EmptyTables
    /\ loaded = FALSE
    /\ hash_first \in FirstChoices(LoadTables(json_source, FALSE, EmptyTables))
    /\ max_iterations \in 0..MaxCeiling
    /\ original_content \in InputMessages
    /\ current_content = original_content
    /\ final_file = NoFile
    /\ iteration = 0
    /\ total_corrections = 0
    /\ all_corrections = <<>>
    /\ detailed_errors = <<>>
    /\ status = "UNKNOWN"
    /\ pc = "start"
    /\ response = NoResponse
    /\ exit_via = "none"
    /\ validations = <<>>
    /\ passes = <<>>
    /\ calls = [t \in Threads |-> Idle(0)]
    /\ answer = NoAnswer
    /\ AuxIdle

\* line 1117: while iteration < max_iterations
LoopConditionOffByOne(i, ceiling) == i <= ceiling

LoopConditionAlways(i, ceiling) == TRUE

LoopCondition(i, ceiling) == i < ceiling

\* line 1199: if status == 'PASSED' or len(detailed_errors) == 0: break
BreakConditionErrorsOnly(st, errors) == Len(errors) = 0

BreakCondition(st, errors) == st = "PASSED" \/ Len(errors) = 0

\* line 1219: if corrections_made == 0: break
StallConditionNever(corrections_made) == FALSE

StallCondition(corrections_made) == corrections_made = 0

\* line 1225: all_corrections.extend(corrections_list)
ExtendOverwrites(all, corrections_list) == corrections_list

Extend(all, corrections_list) == all \o corrections_list

\* the registry as a query of this step sees it (load_tables runs first)
Tables == LoadTables(json_source, loaded, code_tables)

Pass(input, errors, r) ==
    [input |-> input, errors |-> errors, output |-> r.content,
     corrections |-> r.corrections]

\* lines 1092-1115: the pre-validation pass with gazelle_errors=[]
Normalize ==
    /\ pc = "start"
    /\ \E r \in {PrepareMessage(current_content, <<>>, Tables, hash_first)} :
       LET n == Len(r.corrections)
           next_content == IF n > 0 THEN r.content ELSE current_content
       IN  /\ current_content' = next_content
           /\ all_corrections' = Extend(all_corrections, r.corrections)
           /\ total_corrections' = total_corrections + n
           /\ final_file' = next_content
           /\ code_tables' = IF r.touched THEN Tables ELSE code_tables
           /\ loaded' = (loaded \/ r.touched)
           /\ passes' = Append(passes, Pass(current_content, <<>>, r))
    /\ pc' = "loop"
    /\ UNCHANGED <<json_source, hash_first, max_iterations, original_content,
                   iteration, detailed_errors, status, response, exit_via,
                   validations>>
    /\ UNCHANGED regvars
    /\ UNCHANGED auxvars

\* lines 1161-1192: the status the stdout of the validator leaves in "status"
ParsedStatus(resp, old) ==
    IF resp.status \in {"PASSED", "FAILED", "UNDEFINED"} THEN resp.status ELSE old

\* lines 1117-1201: one validation; TimeoutExpired goes to the handler of
\* lines 1352-1359
Validate(resp) ==
    /\ pc = "loop"
    /\ LoopCondition(iteration, max_iterations)
    /\ iteration <= MaxCeiling   \* cap of the model: no ceiling allows more runs
    /\ iteration' = iteration + 1
    /\ validations' = Append(validations, [submitted |-> final_file, resp |-> resp])
    /\ IF resp.kind = "timeout"
       THEN /\ pc' = "done"
            /\ response' = [NoResponse EXCEPT !.http = 500, !.status = "ERROR"]
            /\ exit_via' = "exception"
            /\ UNCHANGED <<status, detailed_errors>>
       ELSE /\ status' = ParsedStatus(resp, status)
            /\ detailed_errors' = resp.errors
            /\ IF BreakCondition(status', resp.errors)
               THEN pc' = "report" /\ exit_via' = "break_done"
               ELSE pc' = "correct" /\ UNCHANGED exit_via
            /\ UNCHANGED response
    /\ UNCHANGED <<json_source, code_tables, loaded, hash_first, max_iterations,
                   original_content, current_content, final_file,
                   total_corrections, all_corrections, passes>>
    /\ UNCHANGED regvars
    /\ UNCHANGED auxvars

\* lines 1203-1232: the Rule Engine pass of one iteration
Correct ==
    /\ pc = "correct"
    /\ \E r \in {PrepareMessage(current_content, detailed_errors, Tables, hash_first)} :
       LET corrections_made == Len(r.corrections)
       IN  /\ passes' = Append(passes, Pass(current_content, detailed_errors, r))
           /\ code_tables' = IF r.touched THEN Tables ELSE code_tables
           /\ loaded' = (loaded \/ r.touched)
           /\ IF StallCondition(corrections_made)
              THEN /\ pc' = "report"
                   /\ exit_via' = "break_stall"
                   /\ UNCHANGED <<total_corrections, all_corrections,
                                  current_content, final_file>>
              ELSE /\ total_corrections' = total_corrections + corrections_made
                   /\ all_corrections' = Extend(all_corrections, r.corrections)
                   /\ current_content' = r.content
                   /\ final_file' = r.content
                   /\ pc' = "loop"
                   /\ UNCHANGED exit_via
    /\ UNCHANGED <<json_source, hash_first, max_iterations, original_content,
                   iteration, detailed_errors, status, response, validations>>
    /\ UNCHANGED regvars
    /\ UNCHANGED auxvars

\* line 1117: the loop condition fails
Exhaust ==
    /\ pc = "loop"
    /\ ~LoopCondition(iteration, max_iterations)
    /\ pc' = "report"
    /\ exit_via' = "exhausted"
    /\ UNCHANGED <<json_source, code_tables, loaded, hash_first, max_iterations,
                   original_content, current_content, final_file, iteration,
                   total_corrections, all_corrections, detailed_errors, status,
                   response, validations, passes>>
    /\ UNCHANGED regvars
    /\ UNCHANGED auxvars

\* lines 1330-1350: the response of the request
Respond ==
    /\ pc = "report"
    /\ LET remaining_errors == Len(detailed_errors)
       IN  response' =
             [http |-> 200, success |-> TRUE,
              status |-> IF status = "PASSED" \/ remaining_errors = 0
                         THEN "PASSED" ELSE "PARTIAL",
              corrections_applied |-> total_corrections,
              iterations |-> iteration,
              remaining_errors |-> remaining_errors]
    /\ pc' = "done"
    /\ UNCHANGED <<json_source, code_tables, loaded, hash_first, max_iterations,
                   original_content, current_content, final_file, iteration,
                   total_corrections, all_corrections, detailed_errors, status,
                   exit_via, validations, passes>>
    /\ UNCHANGED regvars
    /\ UNCHANGED auxvars

Next ==
    \/ Normalize
    \/ \E resp \in Responses : Validate(resp)
    \/ Correct
    \/ Exhaust
    \/ Respond

Spec == Init /\ [][Next]_vars

\* every step of the handler is eventually taken: the request thread runs
\* and, by assumption, each validator call returns
\* Termination does not depend on the head of the message: the fair
\* specification starts from the inputs with the two most common heads.
LiveInit ==
    /\ Init
    /\ original_content.head \in {<<>>, <<"BOM", "DECL">>}
    /\ ~original_content.bad

FairSpec == LiveInit /\ [][Next]_vars /\ WF_vars(Next)

(***************************************************************************)
(* The registry under direct calls (hl7_code_tables.py): threads of one    *)
(* process call load_tables, is_valid_code, get_valid_codes and            *)
(* find_similar_code on the global manager.  load_tables takes no lock: a  *)
(* thread may be switched out between any two statements of it.            *)
(***************************************************************************)
MaxCalls == 1   \* calls each thread makes

RegistrySources ==
    SampleSources \cup
    { [file |-> "malformed", items |-> <<>>],
      [file |-> "ok", items |-> << Item("HL70301", "ok", {"L", "ISO"}),
                                   Item("HL70070", "raise", {}) >>],
      [file |-> "ok", items |-> << Item("HL70070", "skip", {}),
                                   Item("HL70999", "ok", {}),
                                   Item("HL70301", "ok", {"ISO", "DNS"}) >>] }

\* the (table, code) arguments of the calls
QueryInputs ==
    { <<"HL70070", "XXX">>, <<"HL70070", "OTH">>, <<"HL70301", "L">>,
      <<"HL70301", "XXX">>, <<"HL70999", "XXX">> }

\* the order of Python's str comparison on the codes of the sources
CodeOrder == <<"BLD", "DNS", "ISO", "L", "OTH", "SER", "XXX">>

CodeRank(c) == CHOOSE i \in 1..Len(CodeOrder) : CodeOrder[i] = c

\* sorted(list(codes))
Sorted(codes) ==
    [i \in 1..Cardinality(codes) |->
        CHOOSE c \in codes :
            Cardinality({d \in codes : CodeRank(d) < CodeRank(c)}) = i - 1]

\* get_valid_codes, after load_tables
GetValidCodes(tables, t) ==
    IF t \notin DOMAIN tables THEN NoVal ELSE Sorted(tables[t])

\* lines 61-64: except json.JSONDecodeError / except Exception
Catches(exc) == exc \in {"JSONDecodeError", "TypeError"}

\* where a call continues when its load_tables returns
AfterLoad(op) == IF op = "load_tables" THEN "idle" ELSE "query"

Returned(c) == IF AfterLoad(c.op) = "idle" THEN Idle(c.left)
               ELSE [c EXCEPT !.pc = "query"]

InitRegistry ==
    /\ json_source \in RegistrySources
    /\ code_tables = EmptyTables
    /\ loaded = FALSE
    /\ hash_first \in FirstChoices(LoadTables(json_source, FALSE, EmptyTables))
    /\ calls = [t \in Threads |-> Idle(MaxCalls)]
    /\ answer = NoAnswer
    /\ AuxIdle
    /\ max_iterations = 0
    /\ original_content = NoFile
    /\ current_content = NoFile
    /\ final_file = NoFile
    /\ iteration = 0
    /\ total_corrections = 0
    /\ all_corrections = <<>>
    /\ detailed_errors = <<>>
    /\ status = "UNKNOWN"
    /\ pc = "registry"
    /\ response = NoResponse
    /\ exit_via = "none"
    /\ validations = <<>>
    /\ passes = <<>>

ctlvars == <<json_source, hash_first, max_iterations, pc, original_content,
             current_content, final_file, iteration, total_corrections,
             all_corrections, detailed_errors, status, response, exit_via,
             validations, passes>>

\* a thread enters one of the four functions; each starts with load_tables
RegCall(t, op, table, code) ==
    /\ calls[t].pc = "idle"
    /\ calls[t].left > 0
    /\ calls' = [calls EXCEPT ![t] =
                    [pc |-> "load_tables", op |-> op, table |-> table,
                     code |-> code, items |-> <<>>, exc |-> NoVal,
                     left |-> calls[t].left - 1]]
    /\ UNCHANGED <<code_tables, loaded, answer>>
    /\ UNCHANGED ctlvars
    /\ UNCHANGED auxvars

\* lines 34-46: the early returns and json.load
LoadEnter(t) ==
    /\ calls[t].pc = "load_tables"
    /\ IF loaded
       THEN /\ calls' = [calls EXCEPT ![t] = Returned(calls[t])]
            /\ UNCHANGED loaded
       ELSE IF json_source.file = "missing"
       THEN /\ loaded' = TRUE
            /\ calls' = [calls EXCEPT ![t] = Returned(calls[t])]
       ELSE IF json_source.file = "malformed"
       THEN /\ calls' = [calls EXCEPT ![t].pc = "except",
                                      ![t].exc = "JSONDecodeError"]
            /\ UNCHANGED loaded
       ELSE /\ calls' = [calls EXCEPT ![t].pc = "for",
                                      ![t].items = json_source.items]
            /\ UNCHANGED loaded
    /\ UNCHANGED <<code_tables, answer>>
    /\ UNCHANGED ctlvars
    /\ UNCHANGED auxvars

\* lines 48-57: one round of the for loop over data.items()
LoadFor(t) ==
    /\ calls[t].pc = "for"
    /\ IF calls[t].items = <<>>
       THEN /\ calls' = [calls EXCEPT ![t].pc = "loaded"]
            /\ UNCHANGED code_tables
       ELSE LET it == Head(calls[t].items)
            IN  IF it.kind = "raise"
                THEN /\ calls' = [calls EXCEPT ![t].pc = "except",
                                               ![t].exc = "TypeError"]
                     /\ UNCHANGED code_tables
                ELSE /\ calls' = [calls EXCEPT ![t].items = Tail(calls[t].items)]
                     /\ code_tables' = IF it.kind = "ok"
                                       THEN StoreTable(code_tables, it)
                                       ELSE code_tables
    /\ UNCHANGED <<loaded, answer>>
    /\ UNCHANGED ctlvars
    /\ UNCHANGED auxvars

\* lines 61-64: the exception handlers
LoadExcept(t) ==
    /\ calls[t].pc = "except"
    /\ calls' = [calls EXCEPT ![t].pc = IF Catches(calls[t].exc)
                                        THEN "loaded" ELSE "raised",
                              ![t].exc = IF Catches(calls[t].exc)
                                         THEN NoVal ELSE calls[t].exc]
    /\ UNCHANGED <<code_tables, loaded, answer>>
    /\ UNCHANGED ctlvars
    /\ UNCHANGED auxvars

\* line 66: self._loaded = True, and load_tables returns
LoadDone(t) ==
    /\ calls[t].pc = "loaded"
    /\ loaded' = TRUE
    /\ calls' = [calls EXCEPT ![t] = Returned(calls[t])]
    /\ UNCHANGED <<code_tables, answer>>
    /\ UNCHANGED ctlvars
    /\ UNCHANGED auxvars

\* the rest of is_valid_code, get_valid_codes or find_similar_code: it reads
\* self.code_tables as it is now
Query(t) ==
    /\ calls[t].pc = "query"
    /\ LET c == calls[t]
       IN  answer' =
             [thread |-> t, op |-> c.op, table |-> c.table, code |-> c.code,
              seen |-> code_tables,
              result |->
                 CASE c.op = "is_valid_code" ->
                         IsValidCode(code_tables, c.table, c.code)
                   [] c.op = "get_valid_codes" ->
                         GetValidCodes(code_tables, c.table)
                   [] c.op = "find_similar_code" ->
                         FindSimilarCode(code_tables, hash_first, c.table, c.code)]
    /\ calls' = [calls EXCEPT ![t] = Idle(calls[t].left)]
    /\ UNCHANGED <<code_tables, loaded>>
    /\ UNCHANGED ctlvars
    /\ UNCHANGED auxvars

NextRegistry ==
    \E t \in Threads :
        \/ RegCall(t, "load_tables", NoVal, NoVal)
        \/ \E q \in QueryInputs : RegCall(t, "is_valid_code", q[1], q[2])
        \/ \E q \in QueryInputs : RegCall(t, "get_valid_codes", q[1], NoVal)
        \/ \E q \in QueryInputs : RegCall(t, "find_similar_code", q[1], q[2])
        \/ LoadEnter(t)
        \/ LoadFor(t)
        \/ LoadExcept(t)
        \/ LoadDone(t)
        \/ Query(t)

SpecRegistry == InitRegistry /\ [][NextRegistry]_vars

(***************************************************************************)
(* The rule engine under direct calls (hl7_corrector.py): a caller runs    *)
(* prepare_message on a message with a diagnostic list, and again on what  *)
(* the call returned, on the same corrector instance.                      *)
(***************************************************************************)
MaxPasses == 2   \* prepare_message calls on one corrector instance

EngineDocs ==
    SampleDocs \cup
    { [root |-> "REF_I12",
       body |-> << F("MSH.4", "", << C("HD.1", "CLIP"), C("HD.3", "CLIP") >>),
                   F("PID.3", "", << C("CX.1", "CLIP") >>) >>],
      [root |-> "ORU_R01",
       body |-> << F("OBR.15", "", << C("CE.1", "OTH"), C("CE.3", "L") >>),
                   F("OBX.3", "", << C("CE.1", "GLU"), C("CE.3", "L") >>) >>],
      [root |-> "REF_I12",
       body |-> << F("PID.5", "", <<>>),
                   F("SCH.6", "", << C("CE.1", "ROUTINE"), C("CE.3", "") >>),
                   F("OBR.15", "", << C("CE.1", "OTH"), C("CE.3", " ") >>),
                   F("SCH.20", " ", <<>>) >>],
      [root |-> "SIU_S12",
       body |-> << F("SCH.6", "", << C("CE.1", "OTH"), C("CE.3", "L") >>) >>] }

EngineMessages ==
    {[head |-> h, root |-> d.root, body |-> d.body, bad |-> b] :
        h \in SeqsUpTo(HeadTokens, MaxHeadLen), d \in EngineDocs, b \in BOOLEAN}

EngineDiagPool ==
    DiagPool \cup
    { Diag("Code", "ERROR", Loc(TRUE, "OBR", 1, "15", 1, "1"),
           Desc(FALSE, FALSE, TRUE, "OTH", "HL70070", "L")),
      Diag("Required", "ERROR", Loc(TRUE, "SCH", 1, "6", 1, "3"),
           Desc(TRUE, TRUE, FALSE, NoVal, NoVal, NoVal)),
      Diag("Required", "ERROR", Loc(TRUE, "OBR", 1, "15", 1, "3"),
           Desc(TRUE, TRUE, FALSE, NoVal, NoVal, NoVal)),
      \* 'hl7shortpath:SCH-20' and 'hl7shortpath:SCH[1]-6.3'
      Diag("Cardinality", "ERROR", Loc(TRUE, "SCH", 0, "20", 0, ""),
           Desc(TRUE, TRUE, FALSE, NoVal, NoVal, NoVal)),
      Diag("Required", "ERROR", Loc(TRUE, "SCH", 1, "6", 0, "3"),
           Desc(TRUE, TRUE, FALSE, NoVal, NoVal, NoVal)) }

\* diagnostics a rule may be unable to act on: an address the location
\* patterns do not match, a table the registry does not have, a literal
\* that may no longer be in the message
FailingDiags ==
    { Diag("Cardinality", "ERROR", NoLoc,
           Desc(TRUE, TRUE, FALSE, NoVal, NoVal, NoVal)),
      Diag("Code", "ERROR", Loc(TRUE, "OBR", 1, "15", 1, "1"),
           Desc(FALSE, FALSE, TRUE, "BAD", "HL70999", NoVal)),
      Diag("Code", "ERROR", Loc(TRUE, "MSH", 1, "4", 1, "3"),
           Desc(FALSE, FALSE, TRUE, "CLIP", "HL70301", NoVal)) }

\* diagnostics that differ in severity (WARNING in either case, and the
\* empty severity of a report entry without one), and a diagnostic whose
\* text fits the tests of two branches of the dispatch
SeverityDiags ==
    { Diag("Cardinality", "WARNING", Loc(TRUE, "SCH", 1, "20", 1, ""),
           Desc(TRUE, TRUE, FALSE, NoVal, NoVal, NoVal)),
      Diag("Code", "warning", Loc(TRUE, "MSH", 1, "4", 1, "3"),
           Desc(FALSE, FALSE, TRUE, "CLIP", "HL70301", NoVal)),
      Diag("Cardinality", "", Loc(TRUE, "SCH", 1, "20", 1, ""),
           Desc(TRUE, TRUE, FALSE, NoVal, NoVal, NoVal)),
      Diag("Cardinality", "ERROR", Loc(TRUE, "SCH", 1, "6", 1, "3"),
           Desc(TRUE, TRUE, FALSE, NoVal, NoVal, NoVal)) }

IsWarning(d) == d.severity \in {"WARNING", "warning"}

\* the lists given to a pass: the short lists over the pool, a failing
\* diagnostic followed by another diagnostic, and two warnings
EngineDiagLists ==
    SeqsUpTo(EngineDiagPool \cup FailingDiags \cup SeverityDiags, MaxDiags)
    \cup {<<a, b>> : a \in FailingDiags, b \in EngineDiagPool}
    \cup {<<a, b>> : a, b \in {d \in SeverityDiags : IsWarning(d)}}

InitEngine ==
    /\ json_source \in SampleSources
    /\ code_tables = EmptyTables
    /\ loaded = FALSE
    /\ hash_first \in FirstChoices(LoadTables(json_source, FALSE, EmptyTables))
    /\ original_content \in EngineMessages
    /\ current_content = original_content
    /\ detailed_errors \in EngineDiagLists
    /\ passes = <<>>
    /\ pc = "engine"
    /\ max_iterations = 0
    /\ final_file = NoFile
    /\ iteration = 0
    /\ total_corrections = 0
    /\ all_corrections = <<>>
    /\ status = "UNKNOWN"
    /\ response = NoResponse
    /\ exit_via = "none"
    /\ validations = <<>>
    /\ calls = [t \in Threads |-> Idle(0)]
    /\ answer = NoAnswer
    /\ AuxIdle

\* corrector.prepare_message(content, gazelle_errors=errors); the caller
\* keeps the returned bytes
EnginePass ==
    /\ pc = "engine"
    /\ Len(passes) < MaxPasses
    /\ \E r \in {PrepareMessage(current_content, detailed_errors, Tables, hash_first)} :
          /\ passes' = Append(passes, Pass(current_content, detailed_errors, r))
          /\ current_content' = r.content
          /\ code_tables' = IF r.touched THEN Tables ELSE code_tables
          /\ loaded' = (loaded \/ r.touched)
    /\ UNCHANGED <<json_source, hash_first, max_iterations, pc, original_content,
                   final_file, iteration, total_corrections, all_corrections,
                   detailed_errors, status, response, exit_via, validations>>
    /\ UNCHANGED regvars
    /\ UNCHANGED auxvars

NextEngine == EnginePass

SpecEngine == InitEngine /\ [][NextEngine]_vars

(***************************************************************************)
(* Two concurrent requests of retry_auto_correct (dashboard_app.py, lines  *)
(* 1117-1159).  Each iteration hands session['api_key'] to the validator   *)
(* script through the file .env of the working directory, which all        *)
(* requests of the process share; no lock is taken, so a request may be    *)
(* switched out between any two file operations.                           *)
(***************************************************************************)
MaxRuns == 2   \* validator runs of one request

\* the variables of the loop, the registry and the engine
corevars == <<ctlvars, code_tables, loaded, regvars>>

\* the loop, the registry and the engine are not looked at
ControllerIdle ==
    /\ json_source = [file |-> "missing", items |-> <<>>]
    /\ code_tables = EmptyTables
    /\ loaded = FALSE
    /\ hash_first \in FirstChoices(EmptyTables)
    /\ max_iterations = 0
    /\ original_content = NoFile
    /\ current_content = NoFile
    /\ final_file = NoFile
    /\ iteration = 0
    /\ total_corrections = 0
    /\ all_corrections = <<>>
    /\ detailed_errors = <<>>
    /\ status = "UNKNOWN"
    /\ response = NoResponse
    /\ exit_via = "none"
    /\ validations = <<>>
    /\ passes = <<>>
    /\ calls = [t \in Threads |-> Idle(0)]
    /\ answer = NoAnswer

\* validate_with_verification.py, lines 14-18: load_dotenv() keeps a
\* variable the inherited environment already has, otherwise
\* GAZELLE_API_KEY is what .env holds when the script starts
KeySeen(environ, fs) == IF environ # Absent THEN environ ELSE fs.env

\* the server was started with or without a .env of its own; load_dotenv()
\* at line 39 of dashboard_app.py has copied its key into os.environ
InitSessions ==
    /\ ControllerIdle
    /\ pc = "sessions"
    /\ os_environ \in {Absent, "server"}
    /\ envfs = [env |-> os_environ, temp |-> Absent, backup |-> Absent]
    /\ sess = [s \in Sessions |-> NewSession]
    /\ poll = NotPolling
    /\ processing_results = [f \in FileIds |-> NoRecord]
    /\ last_request = NoRequest

\* an exception outside the try block of lines 1137-1159, or inside its
\* finally clause, ends the request in the handler of lines 1352-1359
Raised(s, exc) == [sess EXCEPT ![s].pc = "failed", ![s].error = exc]

\* lines 1117-1128: the loop is entered and .env.temp is written
WriteTemp(s) ==
    /\ sess[s].pc = "write_temp"
    /\ sess[s].runs < MaxRuns
    /\ envfs' = [envfs EXCEPT !.temp = ApiKey(s)]
    /\ sess' = [sess EXCEPT ![s].pc = "exists_env", ![s].runs = @ + 1,
                            ![s].backup_env = FALSE]
    /\ UNCHANGED <<os_environ, poll>>
    /\ UNCHANGED corevars
    /\ UNCHANGED recvars

\* lines 1130-1132: backup_env = None; if os.path.exists(original_env)
ExistsEnv(s) ==
    /\ sess[s].pc = "exists_env"
    /\ sess' = IF envfs.env # Absent
               THEN [sess EXCEPT ![s].pc = "rename_env", ![s].backup_env = TRUE]
               ELSE [sess EXCEPT ![s].pc = "rename_temp"]
    /\ UNCHANGED <<os_environ, envfs, poll>>
    /\ UNCHANGED corevars
    /\ UNCHANGED recvars

\* line 1134: os.rename(original_env, backup_env)
RenameEnv(s) ==
    /\ sess[s].pc = "rename_env"
    /\ IF envfs.env = Absent
       THEN /\ sess' = Raised(s, "FileNotFoundError")
            /\ UNCHANGED envfs
       ELSE /\ envfs' = [envfs EXCEPT !.backup = envfs.env, !.env = Absent]
            /\ sess' = [sess EXCEPT ![s].pc = "rename_temp"]
    /\ UNCHANGED <<os_environ, poll>>
    /\ UNCHANGED corevars
    /\ UNCHANGED recvars

\* line 1135: os.rename(temp_env, original_env)
RenameTemp(s) ==
    /\ sess[s].pc = "rename_temp"
    /\ IF envfs.temp = Absent
       THEN /\ sess' = Raised(s, "FileNotFoundError")
            /\ UNCHANGED envfs
       ELSE /\ envfs' = [envfs EXCEPT !.env = envfs.temp, !.temp = Absent]
            /\ sess' = [sess EXCEPT ![s].pc = "run"]
    /\ UNCHANGED <<os_environ, poll>>
    /\ UNCHANGED corevars
    /\ UNCHANGED recvars

\* lines 1138-1154: subprocess.run of the validator script with a copy of
\* os.environ; the script authenticates with the key it finds
RunValidator(s) ==
    /\ sess[s].pc = "run"
    /\ sess' = [sess EXCEPT ![s].pc = "finally_env",
                            ![s].used = Append(@, KeySeen(os_environ, envfs))]
    /\ UNCHANGED <<os_environ, envfs, poll>>
    /\ UNCHANGED corevars
    /\ UNCHANGED recvars

\* line 1156: if os.path.exists(original_env)
FinallyExistsEnv(s) ==
    /\ sess[s].pc = "finally_env"
    /\ sess' = [sess EXCEPT ![s].pc = IF envfs.env # Absent THEN "remove_env"
                                      ELSE "finally_backup"]
    /\ UNCHANGED <<os_environ, envfs, poll>>
    /\ UNCHANGED corevars
    /\ UNCHANGED recvars

\* line 1157: os.remove(original_env)
RemoveEnv(s) ==
    /\ sess[s].pc = "remove_env"
    /\ IF envfs.env = Absent
       THEN /\ sess' = Raised(s, "FileNotFoundError")
            /\ UNCHANGED envfs
       ELSE /\ envfs' = [envfs EXCEPT !.env = Absent]
            /\ sess' = [sess EXCEPT ![s].pc = "finally_backup"]
    /\ UNCHANGED <<os_environ, poll>>
    /\ UNCHANGED corevars
    /\ UNCHANGED recvars

\* line 1158: if backup_env and os.path.exists(backup_env)
FinallyExistsBackup(s) ==
    /\ sess[s].pc = "finally_backup"
    /\ sess' = [sess EXCEPT ![s].pc =
                    IF sess[s].backup_env /\ envfs.backup # Absent
                    THEN "restore_env" ELSE "iterate"]
    /\ UNCHANGED <<os_environ, envfs, poll>>
    /\ UNCHANGED corevars
    /\ UNCHANGED recvars

\* line 1159: os.rename(backup_env, original_env)
RestoreEnv(s) ==
    /\ sess[s].pc = "restore_env"
    /\ IF envfs.backup = Absent
       THEN /\ sess' = Raised(s, "FileNotFoundError")
            /\ UNCHANGED envfs
       ELSE /\ envfs' = [envfs EXCEPT !.env = envfs.backup, !.backup = Absent]
            /\ sess' = [sess EXCEPT ![s].pc = "iterate"]
    /\ UNCHANGED <<os_environ, poll>>
    /\ UNCHANGED corevars
    /\ UNCHANGED recvars

\* lines 1161-1232: the report is parsed and the loop is left (break, or
\* the ceiling is reached) or a correction pass leads to the next iteration
Iterate(s) ==
    /\ sess[s].pc = "iterate"
    /\ \E again \in BOOLEAN :
          sess' = [sess EXCEPT ![s].pc =
                      IF again /\ sess[s].runs < MaxRuns THEN "write_temp"
                      ELSE "done"]
    /\ UNCHANGED <<os_environ, envfs, poll>>
    /\ UNCHANGED corevars
    /\ UNCHANGED recvars

SessionStep(s) ==
    \/ WriteTemp(s)
    \/ ExistsEnv(s)
    \/ RenameEnv(s)
    \/ RenameTemp(s)
    \/ RunValidator(s)
    \/ FinallyExistsEnv(s)
    \/ RemoveEnv(s)
    \/ FinallyExistsBackup(s)
    \/ RestoreEnv(s)
    \/ Iterate(s)

NextSessions == \E s \in Sessions : SessionStep(s)

SpecSessions == InitSessions /\ [][NextSessions]_vars

(***************************************************************************)
(* check_validation_status (validate_with_verification.py, lines 88-111;   *)
(* debug_and_fix.py has the same function).                                *)
(***************************************************************************)
MaxWait == 5   \* largest max_wait of a call

\* the outcomes of requests.get(url, headers=headers)
Replies ==
    {[kind |-> "http", code |-> "200", text |-> t] : t \in {"report1", "report2"}}
    \cup {[kind |-> "http", code |-> c, text |-> ""] : c \in {"404", "401", "500", "503"}}
    \cup {[kind |-> "exception", code |-> NoVal, text |-> e] :
            e \in {"ConnectionError", "ReadTimeout"}}

InitPolling ==
    /\ ControllerIdle
    /\ pc = "polling"
    /\ os_environ = Absent
    /\ envfs = [env |-> Absent, temp |-> Absent, backup |-> Absent]
    /\ sess = [s \in Sessions |-> NewSession]
    /\ \E w \in 0..MaxWait : poll = [NotPolling EXCEPT !.pc = "for", !.max_wait = w]
    /\ processing_results = [f \in FileIds |-> NoRecord]
    /\ last_request = NoRequest

RangeHasNextInclusive(attempt, max_wait) == attempt <= max_wait

\* line 96: for attempt in range(max_wait) has another round
RangeHasNext(attempt, max_wait) == attempt < max_wait

\* lines 96-109: one round of the loop
PollRequest(reply) ==
    /\ poll.pc = "for"
    /\ RangeHasNext(poll.attempt, poll.max_wait)
    /\ LET p == [poll EXCEPT !.requests = @ + 1, !.replies = Append(@, reply)]
       IN  poll' =
             IF reply.kind = "exception"
             THEN [p EXCEPT !.pc = "returned", !.error = reply.text]
             ELSE IF reply.code = "200"
             THEN [p EXCEPT !.pc = "returned", !.result = reply.text]
             ELSE IF reply.code = "404"
             THEN [p EXCEPT !.attempt = @ + 1]
             ELSE [p EXCEPT !.pc = "returned", !.error = "HTTP " \o reply.code]
    /\ UNCHANGED <<os_environ, envfs, sess>>
    /\ UNCHANGED corevars
    /\ UNCHANGED recvars

\* line 111: the loop is exhausted
PollTimeout ==
    /\ poll.pc = "for"
    /\ ~RangeHasNext(poll.attempt, poll.max_wait)
    /\ poll' = [poll EXCEPT !.pc = "returned",
                            !.error = "Timeout waiting for validation"]
    /\ UNCHANGED <<os_environ, envfs, sess>>
    /\ UNCHANGED corevars
    /\ UNCHANGED recvars

NextPolling ==
    \/ \E reply \in Replies : PollRequest(reply)
    \/ PollTimeout

SpecPolling == InitPolling /\ [][NextPolling]_vars

(***************************************************************************)
(* The temp-file records (dashboard_app.py): processing_results maps the   *)
(* file id of an upload to its record; the requests that validate,         *)
(* auto-correct or delete a record come from browser sessions that hold an *)
(* API key.  Each request is one step.                                     *)
(***************************************************************************)
InitRecords ==
    /\ ControllerIdle
    /\ pc = "records"
    /\ AuxIdle

Answered(handler, f, s, found, http) ==
    [handler |-> handler, file_id |-> f, session_id |-> s, found |-> found,
     http |-> http]

\* upload_file, lines 1395-1421: a new file id and its record
Upload(f, s) ==
    /\ processing_results[f] = NoRecord
    /\ processing_results' = [processing_results EXCEPT ![f] =
          [session_id |-> s, status |-> "uploaded", detailed_errors |-> FALSE,
           corrected_path |-> FALSE, corrected_file |-> FALSE]]
    /\ last_request' = Answered("upload_file", f, s, NoRecord, 200)
    /\ UNCHANGED <<os_environ, envfs, sess, poll>>
    /\ UNCHANGED corevars

\* validate_file, lines 1425-1824
ValidateFile(f, s, outcome) ==
    LET found == processing_results[f]
    IN  /\ IF found = NoRecord
           THEN /\ last_request' = Answered("validate_file", f, s, found, 404)
                /\ UNCHANGED processing_results
           ELSE IF found.session_id # s
           THEN /\ last_request' = Answered("validate_file", f, s, found, 403)
                /\ UNCHANGED processing_results
           ELSE IF outcome \in {"timeout", "error"}
           THEN /\ processing_results' = [processing_results EXCEPT ![f].status = outcome]
                /\ last_request' = Answered("validate_file", f, s, found, 500)
           ELSE /\ processing_results' = [processing_results EXCEPT
                        ![f].status = "completed",
                        ![f].corrected_path = FALSE,
                        ![f].detailed_errors = (outcome = "errors")]
                /\ last_request' = Answered("validate_file", f, s, found, 200)
        /\ UNCHANGED <<os_environ, envfs, sess, poll>>
        /\ UNCHANGED corevars

\* retry_auto_correct on a temp-file report, lines 1039-1048, 1109-1115,
\* 1288-1299 and 1352-1359
RetryAutoCorrect(f, s, outcome) ==
    LET found == processing_results[f]
    IN  /\ IF found = NoRecord
           THEN /\ last_request' = Answered("retry_auto_correct", f, s, found, 404)
                /\ UNCHANGED processing_results
           ELSE IF outcome = "exception"
           THEN /\ processing_results' = [processing_results EXCEPT
                        ![f].corrected_file = TRUE]
                /\ last_request' = Answered("retry_auto_correct", f, s, found, 500)
           ELSE /\ processing_results' = [processing_results EXCEPT
                        ![f].status = "completed",
                        ![f].corrected_path = TRUE,
                        ![f].corrected_file = TRUE]
                /\ last_request' = Answered("retry_auto_correct", f, s, found, 200)
        /\ UNCHANGED <<os_environ, envfs, sess, poll>>
        /\ UNCHANGED corevars

\* auto_correct_if_errors, lines 1829-1860: the stored result, or a redirect
\* to /auto-correct/<file_id>
AutoCorrectIfErrors(f, s) ==
    LET found == processing_results[f]
    IN  /\ last_request' = Answered("auto_correct_if_errors", f, s, found,
                              IF found = NoRecord THEN 404
                              ELSE IF ~found.detailed_errors THEN 200 ELSE 307)
        /\ UNCHANGED processing_results
        /\ UNCHANGED <<os_environ, envfs, sess, poll>>
        /\ UNCHANGED corevars

\* delete_report on a temp-file record, lines 601-618
DeleteReport(f, s) ==
    LET found == processing_results[f]
    IN  /\ IF found = NoRecord
           THEN /\ last_request' = Answered("delete_report", f, s, found, 404)
                /\ UNCHANGED processing_results
           ELSE IF found.session_id # s
           THEN /\ last_request' = Answered("delete_report", f, s, found, 403)
                /\ UNCHANGED processing_results
           ELSE /\ processing_results' = [processing_results EXCEPT ![f] = NoRecord]
                /\ last_request' = Answered("delete_report", f, s, found, 200)
        /\ UNCHANGED <<os_environ, envfs, sess, poll>>
        /\ UNCHANGED corevars

NextRecords ==
    \/ \E f \in FileIds, s \in Sessions : Upload(f, s)
    \/ \E f \in FileIds, s \in Sessions, outcome \in {"clean", "errors", "timeout", "error"} :
          ValidateFile(f, s, outcome)
    \/ \E f \in FileIds, s \in Sessions, outcome \in {"completed", "exception"} :
          RetryAutoCorrect(f, s, outcome)
    \/ \E f \in FileIds, s \in Sessions : AutoCorrectIfErrors(f, s)
    \/ \E f \in FileIds, s \in Sessions : DeleteReport(f, s)

SpecRecords == InitRecords /\ [][NextRecords]_vars

\* the tables a complete load_tables takes from the source
FinalTables == LoadTables(json_source, FALSE, EmptyTables)

(***************************************************************************)
(* Properties.                                                             *)
(***************************************************************************)
Last(q) == q[Len(q)]

\* a validator run that delivered no report
InfrastructureFailure(resp) == resp.kind \in {"timeout", "infra"}

\* a report with an empty diagnostic list or the explicit pass signal
PassSignal(resp) ==
    resp.kind = "report" /\ (resp.status = "PASSED" \/ resp.errors = <<>>)

\* C1: the iteration counter never exceeds the configured ceiling, the
\* validator is invoked at most that many times, and once the counter has
\* reached the ceiling no further validation happens: the loop is left
\* whatever diagnostics remain.
C1_IterationCeiling ==
    /\ [](iteration <= max_iterations /\ Len(validations) <= max_iterations)
    /\ [][iteration = max_iterations =>
            /\ validations' = validations
            /\ iteration' = iteration
            /\ (pc = "loop" => pc' = "report" /\ exit_via' = "exhausted")]_vars

C1_Witness ==
    /\ pc = "done"
    /\ exit_via = "exhausted"
    /\ max_iterations >= 2
    /\ iteration = max_iterations
    /\ Len(validations) = max_iterations
    /\ detailed_errors # <<>>

\* C2: a session whose response reports status 'PASSED' has an empty
\* outstanding-diagnostics list.
C2_PassedHasNoDiagnostics ==
    (pc = "done" /\ response.status = "PASSED") => detailed_errors = <<>>

\* C3: when a validator run fails (submission fails, polling is exhausted,
\* the call times out), the session ends in a failure outcome, never
\* reported as passed or as partially corrected.
C3_ValidatorFailureIsFailure ==
    (pc = "done" /\ \E k \in 1..Len(validations) :
                        InfrastructureFailure(validations[k].resp))
        => /\ response.http = 500
           /\ ~response.success
           /\ response.status \notin {"PASSED", "PARTIAL"}

\* C4: a Rule Engine pass that is given a non-empty diagnostic list and
\* produces zero records ends the session at once: it is the last pass, no
\* validator run follows the one that returned these diagnostics, the
\* message and the submitted file stay as they were, and the response
\* reports exactly these diagnostics as remaining.
C4_StallEndsSession ==
    \A k \in 1..Len(passes) :
        (passes[k].errors # <<>> /\ passes[k].corrections = <<>>) =>
            /\ k = Len(passes)
            /\ Len(validations) = k - 1
            /\ pc \in {"report", "done"}
            /\ exit_via = "break_stall"
            /\ current_content = passes[k].input
            /\ final_file = Last(validations).submitted
            /\ Last(validations).resp.errors = passes[k].errors
            /\ detailed_errors = passes[k].errors
            /\ pc = "done" =>
                  /\ response.status = "PARTIAL"
                  /\ response.remaining_errors = Len(passes[k].errors)
                  /\ response.iterations = k - 1

C4_Witness ==
    /\ pc = "done"
    /\ exit_via = "break_stall"
    /\ Len(passes) = 2
    /\ Len(passes[2].errors) = 1
    /\ passes[2].errors[1].type = "Cardinality"
    /\ passes[2].corrections = <<>>
    /\ response.remaining_errors = 1

\* C5 as stated: a pass signal ends the session as PASSED without a Rule
\* Engine pass, and on the first validation the session reports 1 iteration
\* and 0 corrections.
C5_PassOnFirstValidationZeroCorrections ==
    (pc = "done" /\ validations # <<>> /\ PassSignal(Last(validations).resp)) =>
        /\ response.status = "PASSED"
        /\ Len(passes) = Len(validations)
        /\ Len(validations) = 1 =>
              /\ response.iterations = 1
              /\ response.corrections_applied = 0

\* C5 amended: a pass signal ends the session as PASSED without a further
\* Rule Engine pass (it is the last validation and no pass follows it); on
\* the first validation the session reports 1 iteration and exactly the
\* corrections of the pre-validation pass.
C5_PassSignalEndsSession ==
    /\ \A k \in 1..Len(validations) :
          PassSignal(validations[k].resp) =>
              /\ k = Len(validations)
              /\ Len(passes) = k
              /\ pc \in {"report", "done"}
    /\ (pc = "done" /\ validations # <<>> /\ PassSignal(Last(validations).resp)) =>
          /\ response.status = "PASSED"
          /\ response.iterations = Len(validations)
          /\ Len(validations) = 1 =>
                /\ response.iterations = 1
                /\ response.corrections_applied = Len(passes[1].corrections)
                /\ all_corrections = passes[1].corrections

C5_Witness ==
    /\ pc = "done"
    /\ Len(validations) = 1
    /\ PassSignal(validations[1].resp)
    /\ response.status = "PASSED"
    /\ response.iterations = 1
    /\ passes[1].corrections # <<>>
    /\ response.corrections_applied = Len(passes[1].corrections)

C7_FirstSubmissionNormalized ==
    validations # <<>> =>
        LET head == validations[1].submitted.head
        IN  head # <<>> /\ head[1] = "DECL"

\* C8: a pass whose only diagnostic reports an invalid HL70301 code that
\* occurs in the message, with 'L' a valid code of the table, replaces every
\* occurrence with 'L' and records it; 'L' is valid in HL70301; and when the
\* validator then accepts the message the session reports PASSED.
IdentifierTypeDefect(p) ==
    /\ Len(p.errors) = 1
    /\ LET d == p.errors[1]
       IN  /\ TypeNamesCode(d.type)
           /\ d.severity = "ERROR"
           /\ d.description.notmember
           /\ d.description.value # NoVal
           /\ TableOfText(d.description.tabletext) = "HL70301"
           /\ "HL70301" \in DOMAIN Tables
           /\ "L" \in Tables["HL70301"]
           /\ ~IsValidCode(Tables, "HL70301", d.description.value)
           /\ HasLiteral(p.input.body, d.description.value)

C8_IdentifierTypeCorrected ==
    /\ \A k \in 1..Len(passes) :
          IdentifierTypeDefect(passes[k]) =>
              LET p == passes[k]
                  v == p.errors[1].description.value
              IN  /\ ~HasLiteral(p.output.body, v)
                  /\ \A i \in 1..Len(p.input.body) :
                        \A j \in 1..Len(p.input.body[i].comps) :
                            p.input.body[i].comps[j].val = v =>
                                p.output.body[i].comps[j].val = "L"
                  /\ \E n \in 1..Len(p.corrections) :
                        /\ p.corrections[n].old_value = v
                        /\ p.corrections[n].new_value = "L"
                        /\ p.corrections[n].table = "HL70301"
                  /\ IsValidCode(Tables, "HL70301", "L")
    /\ ( /\ pc = "done"
         /\ passes # <<>>
         /\ IdentifierTypeDefect(Last(passes))
         /\ Len(validations) = Len(passes)
         /\ PassSignal(Last(validations).resp) )
       => response.status = "PASSED"

C8_Witness ==
    /\ pc = "done"
    /\ Len(passes) = 2
    /\ IdentifierTypeDefect(passes[2])
    /\ HasLiteral(passes[2].output.body, "L")
    /\ Len(validations) = 2
    /\ validations[2].resp.status = "PASSED"
    /\ validations[2].resp.errors = <<>>
    /\ response.status = "PASSED"

\* C9: every session terminates: provided each validator run returns, the
\* handler eventually reaches its response, whatever the validator answers.
C9_SessionTerminates == <>(pc = "done")

C9_Witness ==
    /\ pc = "done"
    /\ iteration = max_iterations
    /\ max_iterations >= 2
    /\ response.http = 200

\* C10: every code replacement recorded by a pass for a table that is loaded
\* is a valid code of that table.
C10_ReplacementIsValid ==
    \A k \in 1..Len(passes) :
        \A n \in 1..Len(passes[k].corrections) :
            LET r == passes[k].corrections[n]
            IN  ( /\ r.type \in {"GAZELLE_FIX", "CODE_FIX"}
                  /\ r.table \in DOMAIN Tables
                  /\ r.new_value # "(empty)" )
                => IsValidCode(Tables, r.table, r.new_value)

C10_Witness ==
    \E k \in 1..Len(passes) :
        \E n \in 1..Len(passes[k].corrections) :
            LET r == passes[k].corrections[n]
            IN  /\ r.type = "GAZELLE_FIX"
                /\ r.table = "HL70301"
                /\ r.table \in DOMAIN Tables
                /\ "L" \notin Tables[r.table]
                /\ r.new_value \in Tables[r.table]
                /\ HasLiteral(passes[k].output.body, r.new_value)
                /\ ~HasLiteral(passes[k].input.body, r.new_value)

\* C11: every answer of is_valid_code is membership of the code in the set
\* the source defines for the table, and for a table that is not in the
\* registry the answer is false whatever the code.
C11_IsValidCodeIsMembership ==
    answer.op = "is_valid_code" =>
        /\ answer.result = ( /\ answer.table \in DOMAIN FinalTables
                             /\ answer.code \in FinalTables[answer.table] )
        /\ answer.table \notin DOMAIN code_tables => answer.result = FALSE

C11_Witness ==
    /\ answer.op = "is_valid_code"
    /\ code_tables # EmptyTables
    /\ answer.table \notin DOMAIN code_tables
    /\ answer.result = FALSE
    /\ \E t \in Threads : calls[t].pc = "for"

\* lines 130-143: a table-specific preference of find_similar_code applies
PreferenceApplies(tables, t) ==
    \/ t = "HL70070" /\ tables[t] \cap {"SER", "BLD", "OTH"} # {}
    \/ t = "HL70301" /\ "L" \in tables[t]

\* the first of a non-empty set of codes in the order of str comparison
LexFirst(codes) ==
    CHOOSE c \in codes : \A d \in codes : CodeRank(c) <= CodeRank(d)

\* C12: find_similar_code returns none for a table that is empty or absent
\* from the registry and, when no table-specific preference applies, the
\* lexicographically first valid code of the table.
C12_FallbackIsLexicographicallyFirst ==
    answer.op = "find_similar_code" =>
        LET t == answer.table
        IN  /\ (t \notin DOMAIN FinalTables \/ FinalTables[t] = {})
                  => answer.result = NoVal
            /\ ( /\ t \in DOMAIN FinalTables
                 /\ FinalTables[t] # {}
                 /\ ~PreferenceApplies(FinalTables, t) )
                  => answer.result = LexFirst(FinalTables[t])

\* C13: for table HL70070, find_similar_code answers 'OTH' for an invalid
\* code whenever 'OTH' is a valid code of the table.
C13_SpecimenSourceDefaultIsOTH ==
    ( /\ answer.op = "find_similar_code"
      /\ answer.table = "HL70070"
      /\ "HL70070" \in DOMAIN FinalTables
      /\ "OTH" \in FinalTables["HL70070"]
      /\ answer.code \notin FinalTables["HL70070"] )
    => answer.result = "OTH"

\* C14: a run of prepare_message with the same message, diagnostics and code
\* tables gives the same corrected message and the same records in every
\* process, whatever the order in which the process enumerates the codes of
\* a table, and whatever calls the corrector instance served before.
C14_Deterministic ==
    \A k \in 1..Len(passes) :
        \A f \in FirstChoices(FinalTables) :
            \E r \in {PrepareMessage(passes[k].input, passes[k].errors,
                                     FinalTables, f)} :
                /\ r.content = passes[k].output
                /\ r.corrections = passes[k].corrections

\* a source load_tables cannot read to the end: the file is missing, is not
\* JSON, or holds a table entry whose 'codes' cannot be made a set
Malformed(src) ==
    \/ src.file \in {"missing", "malformed"}
    \/ \E i \in 1..Len(src.items) : src.items[i].kind = "raise"

\* C15: with a missing or malformed source no call raises, every load_tables
\* that has returned leaves the registry marked loaded and empty, and the
\* queries answer false (is_valid_code) and none (find_similar_code).
C15_LoadDegradesToEmpty ==
    Malformed(json_source) =>
        /\ \A t \in Threads : calls[t].pc # "raised"
        /\ \A t \in Threads : calls[t].pc = "query" => loaded
        /\ answer # NoAnswer => loaded
        /\ loaded => code_tables = EmptyTables
        /\ answer.op = "is_valid_code" => answer.result = FALSE
        /\ answer.op = "find_similar_code" => answer.result = NoVal

\* C16: once a load_tables call has completed (the registry is marked
\* loaded), no step of any thread, in any interleaving of load_tables,
\* is_valid_code, get_valid_codes and find_similar_code calls, changes the
\* set of any table; and every query reads the registry as a complete load
\* leaves it, never a part of it.
C16_LoadedOnceReadOnly ==
    /\ [][loaded => code_tables' = code_tables]_vars
    /\ [](answer # NoAnswer => answer.seen = FinalTables)

C16_Witness ==
    /\ loaded
    /\ answer # NoAnswer
    /\ answer.seen # EmptyTables
    /\ \E t \in Threads :
          /\ calls[t].pc = "for"
          /\ calls[t].items # <<>>
          /\ Head(calls[t].items).kind = "ok"

\* the records of the structural normalization steps
StructuralRecord(r) == r.type \in {"BOM_REMOVAL", "XML_DECLARATION"}

\* C17: a pass over the message an earlier pass returned removes no
\* byte-order mark and inserts no declaration: the head of the message stays
\* as it is and the pass has no structural record.
C17_NormalizationIdempotent ==
    \A k \in 2..Len(passes) :
        passes[k].input = passes[k - 1].output =>
            /\ passes[k].output.head = passes[k].input.head
            /\ \A n \in 1..Len(passes[k].corrections) :
                  ~StructuralRecord(passes[k].corrections[n])

C17_Witness ==
    /\ Len(passes) = 2
    /\ passes[2].input = passes[1].output
    /\ \E n \in 1..Len(passes[1].corrections) :
          passes[1].corrections[n].type = "BOM_REMOVAL"
    /\ \E n \in 1..Len(passes[1].corrections) :
          passes[1].corrections[n].type = "XML_DECLARATION"
    /\ passes[1].output.head = <<"DECL", "BOM">>
    /\ passes[2].output.head = <<"DECL", "BOM">>

\* the component number in the name of a component element ('HD.3': 3)
ComponentNumber(tag) ==
    CASE tag \in {"HD.1", "CE.1", "EI.1", "CX.1"} -> "1"
      [] tag \in {"HD.3", "CE.3"}                 -> "3"
      [] tag = "EI.4"                             -> "4"
      [] OTHER                                    -> ""

\* component j of field element fld is what location l addresses
Addressed(l, fld, j) ==
    /\ fld.name = l.seg \o "." \o l.fld
    /\ l.comp # "" => ComponentNumber(fld.comps[j].tag) = l.comp

\* a pass whose only diagnostic reports a value that is not a member of its table
OneCodeDiagnostic(p) ==
    /\ Len(p.errors) = 1
    /\ TypeNamesCode(p.errors[1].type)
    /\ p.errors[1].severity = "ERROR"
    /\ p.errors[1].description.notmember
    /\ p.errors[1].description.value # NoVal

\* C18: when a pass replaces the literal its diagnostic reports, every
\* occurrence of that literal in an element other than the one the
\* diagnostic addresses is left as it was.
C18_RewritesAnchored ==
    \A k \in 1..Len(passes) :
        OneCodeDiagnostic(passes[k]) =>
            LET p == passes[k]
                d == p.errors[1]
                v == d.description.value
            IN  \A i \in 1..Len(p.input.body) :
                    \A j \in 1..Len(p.input.body[i].comps) :
                        ( /\ p.input.body[i].comps[j].val = v
                          /\ ~Addressed(d.location, p.input.body[i], j) )
                        => p.output.body[i].comps[j].val = v

\* a pass whose only diagnostic names a code that is valid in the table it
\* refers to, together with a coding-system designator other than the table
DesignatorDefect(p) ==
    /\ OneCodeDiagnostic(p)
    /\ IsValidCode(FinalTables, TableOfText(p.errors[1].description.tabletext),
                   p.errors[1].description.value)
    /\ p.errors[1].description.codesys # NoVal
    /\ p.errors[1].description.codesys # TableOfText(p.errors[1].description.tabletext)

\* C19: in such a pass every element that holds the valid code (and is not
\* itself a CE.3 holding the designator) keeps it, the CE.3 elements that
\* hold the designator are emptied, nothing else differs
\* from what the pass does without the diagnostic, and the diagnostic has
\* one record, for the designator (new value '(empty)'), and none for the
\* code.
C19_OnlyDesignatorCorrected ==
    \A k \in 1..Len(passes) :
        DesignatorDefect(passes[k]) =>
            LET p == passes[k]
                v == p.errors[1].description.value
                c == p.errors[1].description.codesys
                fixes == {n \in 1..Len(p.corrections) :
                            p.corrections[n].type = "GAZELLE_FIX"}
            IN  \E base \in {PrepareMessage(p.input, <<>>, FinalTables, hash_first)} :
                /\ \A i \in 1..Len(p.input.body) :
                      /\ p.output.body[i].text = base.content.body[i].text
                      /\ \A j \in 1..Len(p.input.body[i].comps) :
                            LET was == p.input.body[i].comps[j]
                                mid == base.content.body[i].comps[j]
                                now == p.output.body[i].comps[j]
                            IN  /\ (was.val = v /\ ~(was.tag = "CE.3" /\ was.val = c))
                                      => now.val = v
                                /\ (mid.tag = "CE.3" /\ mid.val = c) => now.val = ""
                                /\ ~(mid.tag = "CE.3" /\ mid.val = c) => now = mid
                /\ \A n \in fixes :
                      /\ p.corrections[n].old_value = c
                      /\ p.corrections[n].new_value = "(empty)"
                /\ Cardinality(fixes) =
                      IF HasTagVal(base.content.body, "CE.3", c) THEN 1 ELSE 0

C19_Witness ==
    /\ passes # <<>>
    /\ DesignatorDefect(passes[1])
    /\ HasTagVal(passes[1].input.body, "CE.1", "OTH")
    /\ HasTagVal(passes[1].input.body, "CE.3", "L")
    /\ HasTagVal(passes[1].output.body, "CE.1", "OTH")
    /\ ~HasTagVal(passes[1].output.body, "CE.3", "L")
    /\ \E n \in 1..Len(passes[1].corrections) :
          /\ passes[1].corrections[n].old_value = "L"
          /\ passes[1].corrections[n].new_value = "(empty)"

\* a pass whose only diagnostic reports a missing field (type Cardinality,
\* 'missing') or a missing component ('required' and 'missing')
OneMissingDiagnostic(p) ==
    /\ Len(p.errors) = 1
    /\ p.errors[1].severity \notin {"WARNING", "warning"}
    /\ p.errors[1].description.missing
    /\ \/ p.errors[1].type = "Cardinality"
       \/ /\ p.errors[1].description.required
          /\ ~(TypeNamesCode(p.errors[1].type) /\ p.errors[1].description.notmember)

\* the fields the missing-field and missing-component rules may fill
OnAllowList(l) ==
    \/ l.seg = "SCH" /\ l.fld = "20"
    \/ l.seg = "SCH" /\ l.fld = "6" /\ l.comp = "3"

\* C20: a pass whose only diagnostic reports a missing field or component
\* at an address that is not on the allow-list returns the message the pass
\* returns without the diagnostic, with the same records: the diagnostic
\* changes nothing and has no record.
C20_OffAllowListUntouched ==
    \A k \in 1..Len(passes) :
        (OneMissingDiagnostic(passes[k]) /\ ~OnAllowList(passes[k].errors[1].location)) =>
            \E base \in {PrepareMessage(passes[k].input, <<>>, FinalTables, hash_first)} :
                /\ passes[k].output = base.content
                /\ passes[k].corrections = base.corrections
                /\ \A n \in 1..Len(passes[k].corrections) :
                      passes[k].corrections[n].type # "GAZELLE_FIX"

C20_Witness ==
    /\ passes # <<>>
    /\ OneMissingDiagnostic(passes[1])
    /\ passes[1].errors[1].location.seg = "PID"
    /\ passes[1].errors[1].location.fld = "5"
    /\ \E i \in 1..Len(passes[1].input.body) :
          /\ passes[1].input.body[i].name = "PID.5"
          /\ IsBlank(passes[1].input.body[i].text)
          /\ passes[1].output.body[i] = passes[1].input.body[i]
    /\ passes[1].output.body = passes[1].input.body

\* a pass whose only diagnostic reports, at the fully indexed address, that
\* the required field SCH-20 is missing, on a message in which no SCH.20
\* element has content
Sch20Diagnostic(p) ==
    /\ Len(p.errors) = 1
    /\ p.errors[1].type = "Cardinality"
    /\ p.errors[1].severity = "ERROR"
    /\ p.errors[1].description.missing
    /\ p.errors[1].location = Loc(TRUE, "SCH", 1, "20", 1, "")
    /\ \A i \in 1..Len(p.input.body) :
          p.input.body[i].name = "SCH.20" =>
              (p.input.body[i].comps = <<>> /\ IsBlank(p.input.body[i].text))

\* C21: after such a pass the message has an SCH.20 element with content and
\* the pass has a record for the diagnostic, whether the element was present
\* but empty or absent from the message.
C21_Sch20PlaceholderInserted ==
    \A k \in 1..Len(passes) :
        Sch20Diagnostic(passes[k]) =>
            /\ \E i \in 1..Len(passes[k].output.body) :
                  /\ passes[k].output.body[i].name = "SCH.20"
                  /\ ~IsBlank(passes[k].output.body[i].text)
            /\ \E n \in 1..Len(passes[k].corrections) :
                  /\ passes[k].corrections[n].type = "GAZELLE_FIX"
                  /\ passes[k].corrections[n].location = passes[k].errors[1].location

\* diagnostic d cannot be acted on in a message with this body: its address
\* does not parse, its table is not in the registry, or the literal it
\* reports is not in the message
ContainedFailure(d, body) ==
    /\ d.severity = "ERROR"
    /\ \/ /\ d.type = "Cardinality" /\ d.description.missing
          /\ ~MatchFieldLocation(d.location)
       \/ /\ d.type # "Cardinality" /\ ~TypeNamesCode(d.type)
          /\ d.description.required /\ d.description.missing
          /\ ~MatchComponentLocation(d.location)
       \/ /\ OneCodeDiagnostic([errors |-> <<d>>])
          /\ \/ TableOfText(d.description.tabletext) \notin DOMAIN FinalTables
             \/ /\ ~IsValidCode(FinalTables, TableOfText(d.description.tabletext),
                                d.description.value)
                /\ ~HasLiteral(body, d.description.value)

InGrammar(l) ==
    /\ l.colon /\ l.seg # "" /\ l.fld # ""
    /\ l.segrep \in {0, 1} /\ l.fldrep \in {0, 1}

\* the same address with both repetition indices written
FullyIndexed(l) == [l EXCEPT !.segrep = 1, !.fldrep = 1]

\* C23: a pass whose only diagnostic has an address of the grammar with a
\* repetition index omitted does to the message what it does for the fully
\* indexed address, with as many records.
C23_LocationParserTolerant ==
    \A k \in 1..Len(passes) :
        (Len(passes[k].errors) = 1 /\ InGrammar(passes[k].errors[1].location)) =>
            \E full \in {PrepareMessage(passes[k].input,
                            << [passes[k].errors[1] EXCEPT
                                  !.location = FullyIndexed(passes[k].errors[1].location)] >>,
                            FinalTables, hash_first)} :
                /\ passes[k].output = full.content
                /\ Len(passes[k].corrections) = Len(full.corrections)

\* C24: the change log is complete: whenever the message a pass returns
\* differs from the message it was given (a stripped byte-order mark and
\* bytes dropped while decoding included), the pass has at least one record.
C24_ChangeLogComplete ==
    \A k \in 1..Len(passes) :
        passes[k].output # passes[k].input => passes[k].corrections # <<>>

\* C25: an attempted correction that fails is recorded: a pass whose only
\* diagnostic reports a code that is not valid in its table has a record for
\* that diagnostic (its location and description), also when the reported
\* value is not found in the message or the table offers no replacement.
C25_FailedAttemptRecorded ==
    \A k \in 1..Len(passes) :
        (/\ OneCodeDiagnostic(passes[k])
         /\ ~IsValidCode(FinalTables,
                TableOfText(passes[k].errors[1].description.tabletext),
                passes[k].errors[1].description.value)) =>
            \E i \in 1..Len(passes[k].corrections) :
                /\ passes[k].corrections[i].location = passes[k].errors[1].location
                /\ passes[k].corrections[i].reason = passes[k].errors[1].description

\* C28: every record of a pass is the record of a structural normalization
\* step or carries the location and the description of a diagnostic of the
\* list given to that pass; a pass with an empty list has no other records.
TracesToDiagnostic(r, errors) ==
    \E j \in 1..Len(errors) :
        /\ r.location = errors[j].location
        /\ r.reason = errors[j].description

C28_RecordsTraceToDiagnostics ==
    \A k \in 1..Len(passes) :
        \A i \in 1..Len(passes[k].corrections) :
            \/ StructuralRecord(passes[k].corrections[i])
            \/ TracesToDiagnostic(passes[k].corrections[i], passes[k].errors)

\* C29: the placeholder 'HL70276' goes only into an empty CE.3 component of
\* an SCH.6 element: in a pass that has no diagnostic or only a diagnostic
\* of a missing required component, a CE.3 whose text changes lies in SCH.6,
\* was empty before, and holds the placeholder afterwards.
MissingComponentOnly(p) ==
    \/ p.errors = <<>>
    \/ /\ Len(p.errors) = 1
       /\ p.errors[1].severity = "ERROR"
       /\ p.errors[1].type = "Required"
       /\ p.errors[1].description.required
       /\ p.errors[1].description.missing

C29_PlaceholderOnlyInSch6 ==
    \A k \in 1..Len(passes) :
        MissingComponentOnly(passes[k]) =>
            \A i \in 1..Len(passes[k].input.body) :
                \A j \in 1..Len(passes[k].input.body[i].comps) :
                    LET before == passes[k].input.body[i].comps[j]
                        after == passes[k].output.body[i].comps[j]
                    IN  (before.tag = "CE.3" /\ after.val # before.val) =>
                            /\ passes[k].input.body[i].name = "SCH.6"
                            /\ IsBlank(before.val)
                            /\ after.val = "HL70276"

\* C30: the loop is strictly sequential: the n-th validation is given the
\* output of the n-th pass (the initial normalization, then the Rule Engine
\* pass of each iteration), and the pass that follows a validation is given
\* the message that validation was given and exactly the diagnostics it
\* returned.
C30_StrictlySequential ==
    \A n \in 1..Len(validations) :
        /\ n <= Len(passes)
        /\ validations[n].submitted = passes[n].output
        /\ n < Len(passes) =>
              /\ passes[n + 1].input = validations[n].submitted
              /\ passes[n + 1].errors = validations[n].resp.errors

\* C26: two concurrent sessions share no mutable state: every validator run
\* of a session authenticates with that session's own API key, and no
\* session is ended by an exception, as none is when it runs alone.
C26_SessionsIndependent ==
    \A s \in Sessions :
        /\ \A i \in 1..Len(sess[s].used) : sess[s].used[i] = ApiKey(s)
        /\ sess[s].error = NoVal

\* C27: check_validation_status issues at most max_wait requests, goes on
\* only after a 404, returns the report of the first 200, returns the error
\* of any other status or exception at once, and returns the timeout error
\* exactly when all max_wait replies were 404.
Pending(reply) == reply.kind = "http" /\ reply.code = "404"

C27_PollingBounded ==
    LET n == Len(poll.replies)
        earlier == IF poll.pc = "returned" /\ poll.error # "Timeout waiting for validation"
                   THEN n - 1 ELSE n
    IN  /\ poll.requests = n
        /\ poll.requests <= poll.max_wait
        /\ \A i \in 1..earlier : Pending(poll.replies[i])
        /\ poll.pc = "returned" =>
              /\ (poll.error = "Timeout waiting for validation") <=>
                    (n = poll.max_wait /\ \A i \in 1..n : Pending(poll.replies[i]))
              /\ poll.error # "Timeout waiting for validation" =>
                    /\ n >= 1
                    /\ ~Pending(poll.replies[n])
                    /\ IF poll.replies[n].kind = "http" /\ poll.replies[n].code = "200"
                       THEN poll.result = poll.replies[n].text /\ poll.error = NoVal
                       ELSE /\ poll.result = NoVal
                            /\ poll.error = IF poll.replies[n].kind = "exception"
                                            THEN poll.replies[n].text
                                            ELSE "HTTP " \o poll.replies[n].code

C27_Witness ==
    /\ poll.pc = "returned"
    /\ poll.max_wait = 3
    /\ poll.requests = 3
    /\ poll.error = "Timeout waiting for validation"
    /\ \A i \in 1..3 : Pending(poll.replies[i])

\* C31: when a session that ran at least one validation has answered, the
\* message it returns is the message the last validation was given, and the
\* diagnostics it reports are the diagnostics of that validation: the
\* message is not modified after the last validation.
C31_FinalMessageIsValidated ==
    (pc = "done" /\ response.http = 200 /\ validations # <<>>) =>
        /\ final_file = Last(validations).submitted
        /\ detailed_errors = Last(validations).resp.errors

\* C32: a session reports status PASSED only if at least one validation ran
\* and the most recent validation delivered a report whose overall status
\* is PASSED.
C32_PassedOnlyWhenValidatorPassed ==
    (response.http = 200 /\ response.status = "PASSED") =>
        /\ validations # <<>>
        /\ Last(validations).resp.kind = "report"
        /\ Last(validations).resp.status = "PASSED"

\* C33: a full engine pass is idempotent: a pass applied to the output of
\* the pass before it, with the same diagnostic list, returns the message
\* unchanged and has no records.
C33_PassIdempotent ==
    \A k \in 2..Len(passes) :
        (passes[k].input = passes[k - 1].output /\ passes[k].errors = passes[k - 1].errors) =>
            /\ passes[k].output = passes[k].input
            /\ passes[k].corrections = <<>>

\* C34: a diagnostic list made only of warnings changes nothing: the pass
\* equals the pass with no diagnostics.  A diagnostic with empty severity
\* is processed as the same diagnostic with severity ERROR is.  A single
\* diagnostic that is not a warning triggers at most one rule category: the
\* pass equals the pass with no diagnostics followed by nothing or by
\* exactly one of the three diagnostic-driven rules.
AfterUnconditionalSteps(base) ==
    [head |-> base.content.head, root |-> base.content.root,
     body |-> base.content.body, recs |-> base.corrections, touched |-> FALSE]

SameEffect(p, st) ==
    /\ p.output.head = st.head
    /\ p.output.root = st.root
    /\ p.output.body = st.body
    /\ p.corrections = st.recs

C34_WarningsNeverCorrect ==
    \A k \in 1..Len(passes) :
        LET p == passes[k]
            base == PrepareMessage(p.input, <<>>, FinalTables, hash_first)
            st4 == AfterUnconditionalSteps(base)
        IN  /\ (\A i \in 1..Len(p.errors) : IsWarning(p.errors[i])) =>
                  SameEffect(p, st4)
            /\ (Len(p.errors) = 1 /\ p.errors[1].severity = "") =>
                  \E as_error \in {PrepareMessage(p.input,
                                      <<[p.errors[1] EXCEPT !.severity = "ERROR"]>>,
                                      FinalTables, hash_first)} :
                      /\ p.output = as_error.content
                      /\ p.corrections = as_error.corrections
            /\ (Len(p.errors) = 1 /\ ~IsWarning(p.errors[1])) =>
                  LET d == p.errors[1]
                  IN  \/ SameEffect(p, st4)
                      \/ SameEffect(p, FixMissingField(st4, d.location, d.description))
                      \/ SameEffect(p, FixInvalidCode(st4, d.location, d.description,
                                                     FinalTables, hash_first))
                      \/ SameEffect(p, FixMissingComponent(st4, d.location, d.description))

C34_Witness ==
    /\ passes # <<>>
    /\ Len(passes[1].errors) = 2
    /\ \A i \in 1..2 : IsWarning(passes[1].errors[i])
    /\ passes[1].errors[1].type = "Cardinality"
    /\ passes[1].errors[2].type = "Code"
    /\ EmptySch20(passes[1].input.body) # {}
    /\ HasLiteral(passes[1].input.body, "CLIP")
    /\ "HL70301" \in DOMAIN FinalTables
    /\ "L" \in FinalTables["HL70301"]
    /\ EmptySch20(passes[1].output.body) = EmptySch20(passes[1].input.body)
    /\ HasLiteral(passes[1].output.body, "CLIP")

\* C35: once every auto-correction request has ended, .env has the content
\* it had before the requests (or is absent if it was absent), and no
\* session's API key is left in .env or .env.backup.
SessionKeys == {ApiKey(s) : s \in Sessions}

C35_EnvRestored ==
    (\A s \in Sessions : sess[s].pc \in {"done", "failed"}) =>
        /\ envfs.env = os_environ
        /\ envfs.env \notin SessionKeys
        /\ envfs.backup \notin SessionKeys

\* C36: a request that finds a record stored by another session leaves the
\* record and its files as it found them: only a request of the session
\* whose session_id the record holds validates, auto-corrects or deletes it.
C36_OnlyOwnerTouchesRecord ==
    (/\ last_request.found # NoRecord
     /\ last_request.session_id # last_request.found.session_id) =>
        processing_results[last_request.file_id] = last_request.found

====
